---------------------------- MODULE Spec2Model ----------------------------
(***************************************************************************)
(* pybinclock: a binary clock on a 17 x 7 LED matrix.                      *)
(*                                                                         *)
(*   PyBinClock.py               CurrentTime (capture + binary encoding)   *)
(*                               and the console loop PyBinClock()         *)
(*   BinClockLEDs.py             LEDController with buttons + driving loop *)
(*   BinClockLEDs_nobuttons.py   LEDControllerNoButtons + driving loop     *)
(*   BinClockLEDs_improved.py    LEDController (config, change detection)  *)
(*                                                                         *)
(*   config.py                   Config and its sections, load and save    *)
(*                                                                         *)
(* The specifications share the variables:                                 *)
(*   SpecClock  the console program of PyBinClock.py                       *)
(*   Spec       a controller and a CurrentTime driven method by method,    *)
(*              as the unit tests drive them                               *)
(*   SpecLoop   the three BinClockLEDs() driving loops, statement by       *)
(*              statement, with the button callbacks interleaved           *)
(*   SpecExit   the loop of BinClockLEDs.py under a fair scheduler         *)
(*   SpecConfig DisplayConfig(...), Config.load, save and the sample file  *)
(***************************************************************************)
EXTENDS Integers, Sequences, FiniteSets, TLC

VARIABLES
    variant,            \* which of the three controller modules runs
    config,             \* the colours the run uses (Config.colors / literals)
    now,                \* CurrentTime.now: the captured timestamp
    binary,             \* CurrentTime.binary: field name -> list of bits
    field,              \* controller.field: rows of cells of [r, g, b]
    status,             \* controller.status: name -> [x, y, colour]
    hat,                \* the HAT: its pixel buffer and the frame on the LEDs
    paused,             \* controller.paused
    mode,               \* controller.mode
    exit,               \* controller.exit
    last_time_update,   \* improved controller: name -> bits last drawn
    pc,                 \* position of the loop (or of the method caller)
    row,                \* the driving loop's row counter
    offset_x,           \* writeText's scroll offset
    calls,              \* method calls made so far by the caller of Spec
    last,               \* the operation that ran last and what it rendered
    mode_toggles,       \* history: toggleMode calls made by the caller of Spec
    pause_toggles,      \* history: togglePause calls made by the caller of Spec
    shadow,             \* history: grid and vectors of the same calls of Spec
                        \* made on a controller that rewrites every row
    farewell_shown,     \* history: the driving loop has shown a frame of the
                        \* farewell text since it saw the exit flag
    file                \* the configuration file Config.load / save work on

vars == << variant, config, now, binary, field, status, hat, paused, mode,
           exit, last_time_update, pc, row, offset_x, calls, last,
           mode_toggles, pause_toggles, shadow, farewell_shown, file >>

\* the history variables
histVars == << mode_toggles, pause_toggles, shadow, farewell_shown >>

\* the history before anything was counted
NoHistory ==
    /\ mode_toggles = 0 /\ pause_toggles = 0
    /\ shadow = << >> /\ farewell_shown = FALSE

-----------------------------------------------------------------------------
(* Bounds of the model *)

\* years the mocked/real wall clock may show: 0 .. MaxYear
MaxYear == 2049

\* length of the method-call sequences of Spec
MaxCalls == 4

\* width in pixels of a rendered text (font.getbbox)
TextWidth == 1

-----------------------------------------------------------------------------
(* Program constants *)

YearBits   == 11
MonthBits  == 4
DayBits    == 5
HourBits   == 5
MinuteBits == 6
SecondBits == 6

Width      == 17
Height     == 7
StatusRow  == 6
LastColumn == 16

FieldNames == << "year", "month", "day", "hour", "minute", "second" >>
Fields     == { FieldNames[i] : i \in 1..Len(FieldNames) }

\* the width argument of each "{0:0Nb}" format
FormatWidth(f) ==
    CASE f = "year"   -> YearBits
      [] f = "month"  -> MonthBits
      [] f = "day"    -> DayBits
      [] f = "hour"   -> HourBits
      [] f = "minute" -> MinuteBits
      [] f = "second" -> SecondBits

-----------------------------------------------------------------------------
(* PyBinClock.py: the encoding *)

RECURSIVE BinDigits(_)
\* format(n, "b") for n >= 0: the binary digits of n, most significant
\* first, no leading zeros ("0" for 0)
BinDigits(n) ==
    IF n < 2 THEN << (IF n = 1 THEN "1" ELSE "0") >>
             ELSE BinDigits(n \div 2) \o << (IF n % 2 = 1 THEN "1" ELSE "0") >>

RECURSIVE ZeroPad(_, _)
\* the "0N" part of the format: pad on the left with "0" up to a MINIMUM
\* width of w; a longer digit string is left as it is
ZeroPad(s, w) == IF Len(s) >= w THEN s ELSE ZeroPad(<< "0" >> \o s, w)

\* a mutant of FormatB: digits emitted least significant first
FormatB_lsbFirst(n, w) ==
    LET s == ZeroPad(BinDigits(n), w)
    IN  [i \in 1..Len(s) |-> s[Len(s) + 1 - i]]

\* "{0:0wb}".format(n), as a list of characters
FormatB(n, w) == ZeroPad(BinDigits(n), w)

\* int(x) for a character "0" or "1"
CharToInt(c) == IF c = "1" THEN 1 ELSE 0

\* [int(x) for x in list("{0:0wb}".format(n))]
ToBits(n, w) == LET s == FormatB(n, w) IN [i \in 1..Len(s) |-> CharToInt(s[i])]

get_year_bin(t)   == ToBits(t.year,   YearBits)
get_month_bin(t)  == ToBits(t.month,  MonthBits)
get_day_bin(t)    == ToBits(t.day,    DayBits)
get_hour_bin(t)   == ToBits(t.hour,   HourBits)
get_minute_bin(t) == ToBits(t.minute, MinuteBits)
get_second_bin(t) == ToBits(t.second, SecondBits)

\* CurrentTime.update() after the capture: the six entries of self.binary
Encode(t) ==
    [f \in Fields |->
        CASE f = "hour"   -> get_hour_bin(t)
          [] f = "minute" -> get_minute_bin(t)
          [] f = "second" -> get_second_bin(t)
          [] f = "month"  -> get_month_bin(t)
          [] f = "day"    -> get_day_bin(t)
          [] f = "year"   -> get_year_bin(t)]

-----------------------------------------------------------------------------
(* Timestamps *)

Timestamp(y, mo, d, h, mi, s) ==
    [year |-> y, month |-> mo, day |-> d, hour |-> h, minute |-> mi, second |-> s]

\* the values a field of the captured timestamp may take; datetime is
\* patched in the tests (test_current_time.py:25), so a field may hold any
\* integer of the field's range, 0 included, and a year beyond 2047
FieldRange(f) ==
    CASE f = "year"   -> 0..MaxYear
      [] f = "month"  -> 0..12
      [] f = "day"    -> 0..31
      [] f = "hour"   -> 0..23
      [] f = "minute" -> 0..59
      [] f = "second" -> 0..59

BaseTimes == { Timestamp(2026, 11, 6, 13, 45, 30), Timestamp(0, 1, 1, 0, 0, 0) }

\* the timestamps CurrentTime is constructed on: each field through its
\* whole range, the others held at a base value (every get_*_bin reads one
\* field only)
ClockTimes ==
    UNION { { [b EXCEPT ![f] = v] : v \in FieldRange(f) } :
            <<b, f>> \in BaseTimes \X Fields }

\* the instants at which a running loop finds the clock: all fields zero,
\* the last second of the last 11-bit year, and the first year that needs
\* a twelfth bit
Times ==
    { Timestamp(0, 0, 0, 0, 0, 0),
      Timestamp(2047, 12, 31, 23, 59, 59),
      Timestamp(2048, 1, 1, 0, 0, 1) }

-----------------------------------------------------------------------------
(* PyBinClock.py: CurrentTime and the console loop PyBinClock() *)

\* update(), lines 25-32: capture datetime.now() = t and re-encode the six
\* fields
CurrentTime_update(t) ==
    /\ now' = t
    /\ binary' = Encode(t)

Idle == << >>

\* no configuration file is read: the program takes its colours as given
NoFile == << >>

\* what is recorded of the operation that ran last: its name, whether the
\* operation before it had the same name, how many times it called
\* hat.show(), and the exception it raised
Op(name, n) ==
    [op |-> name, again |-> (last.op = name), shows |-> n, raised |-> "none"]

Constructed(n) == [op |-> "init", again |-> FALSE, shows |-> n, raised |-> "none"]

\* PyBinClock() at line 89, inside CurrentTime.__init__ after lines 19-20:
\* now holds the clock's reading and binary is the empty dict
InitClock ==
    /\ variant = "console"
    /\ now \in ClockTimes
    /\ binary = << >>
    /\ pc = "init"
    /\ last = Constructed(0)
    /\ config = Idle /\ field = Idle /\ status = Idle /\ hat = Idle
    /\ last_time_update = Idle
    /\ paused = FALSE /\ mode = "console" /\ exit = FALSE
    /\ row = 0 /\ offset_x = 0 /\ calls = 0
    /\ NoHistory
    /\ file = NoFile

ctrlVars == << variant, config, field, status, hat, paused, mode, exit,
               last_time_update, row, offset_x, calls, histVars, file >>

\* line 21: __init__ ends with self.update(); the clock still shows the
\* instant line 19 read
console_construct ==
    /\ pc = "init"
    /\ CurrentTime_update(now)
    /\ pc' = "update"
    /\ last' = Op("update", 0)
    /\ UNCHANGED ctrlVars

\* line 93: ct.update(); the clock shows the same instant or a later one
console_update ==
    /\ pc = "update"
    /\ \E t \in Times \cup {now} : CurrentTime_update(t)
    /\ pc' = "print"
    /\ last' = Op("update", 0)
    /\ UNCHANGED ctrlVars

\* lines 94-100: the seven print calls (they read now and binary)
console_print ==
    /\ pc = "print"
    /\ pc' = "sleep"
    /\ last' = Op("print", 0)
    /\ UNCHANGED << now, binary >>
    /\ UNCHANGED ctrlVars

\* line 101: sleep(1)
console_sleep ==
    /\ pc = "sleep"
    /\ pc' = "update"
    /\ last' = Op("sleep", 0)
    /\ UNCHANGED << now, binary >>
    /\ UNCHANGED ctrlVars

\* lines 102-103: Ctrl-C ends the loop
console_interrupt ==
    /\ pc \in {"update", "print", "sleep"}
    /\ pc' = "stopped"
    /\ last' = Op("interrupt", 0)
    /\ UNCHANGED << now, binary >>
    /\ UNCHANGED ctrlVars

NextClock ==
    \/ console_construct
    \/ console_update
    \/ console_print
    \/ console_sleep
    \/ console_interrupt

SpecClock == InitClock /\ [][NextClock]_vars

-----------------------------------------------------------------------------
(* Colours, grid and status indicators *)

BLACK == << 0, 0, 0 >>
OKAY  == << 0, 255, 0 >>
ERROR == << 255, 0, 0 >>
WARN  == << 255, 255, 0 >>
INFO  == << 0, 0, 255 >>

Variants == { "buttons", "nobuttons", "improved" }

\* ColorScheme.__post_init__: the defaults
DefaultColors ==
    [ on_color     |-> << 255, 0, 0 >>,
      off_color    |-> << 0, 0, 0 >>,
      status_okay  |-> << 0, 255, 0 >>,
      status_error |-> << 255, 0, 0 >>,
      status_warn  |-> << 255, 255, 0 >>,
      status_info  |-> << 0, 0, 255 >> ]

\* a configuration file that sets on_color and off_color
CustomColors ==
    [ DefaultColors EXCEPT !.on_color = << 0, 255, 255 >>,
                           !.off_color = << 0, 0, 8 >> ]

\* the colours of BinClockLEDs.py, which reads no configuration: the
\* literals of lines 33-36 (status), 221 (on) and 225 (off)
LiteralColors ==
    [ on_color     |-> << 255, 0, 0 >>,
      off_color    |-> << 0, 0, 0 >>,
      status_okay  |-> OKAY,
      status_error |-> ERROR,
      status_warn  |-> WARN,
      status_info  |-> INFO ]

\* the colours a run of variant v may use (nobuttons takes on/off from the
\* configuration and its status colours from its own literals, which equal
\* the defaults)
ConfigsOf(v) ==
    IF v = "buttons" THEN { LiteralColors } ELSE { DefaultColors, CustomColors }

Cols == 0..(Width - 1)
Rows == 0..(Height - 1)

\* a mutant of Blank: 17 rows of 7 cells
Blank_transposed == [y \in 0..(Width - 1) |-> [x \in 0..(Height - 1) |-> << 0, 0, 0 >>]]

\* [[[0, 0, 0] for x in range(17)] for y in range(7)]
Blank == [y \in Rows |-> [x \in Cols |-> BLACK]]

\* the keys of self.status in insertion order
StatusNames(v) ==
    IF v = "nobuttons" THEN << "heartbeat" >> ELSE << "okay", "paused", "mode" >>

Indicator(x, y, c) == [x |-> x, y |-> y, color |-> c]

\* self.status as __init__ leaves it
InitialStatus(v, cfg) ==
    IF v = "nobuttons"
    THEN [n \in {"heartbeat"} |-> Indicator(0, StatusRow, INFO)]
    ELSE [n \in {"okay", "paused", "mode"} |->
            CASE n = "okay"   -> Indicator(0, StatusRow, cfg.status_info)
              [] n = "paused" -> Indicator(1, StatusRow, cfg.status_okay)
              [] n = "mode"   -> Indicator(2, StatusRow, cfg.status_okay)]

-----------------------------------------------------------------------------
(* draw, reset, setStatus *)

RECURSIVE Overlay(_, _, _, _)
\* draw(), first loop: for s in self.status: field[y][x] = colour; the
\* improved controller writes only inside the grid
Overlay(fld, st, names, guarded) ==
    IF names = << >> THEN fld
    ELSE LET s == st[Head(names)]
             inside == s.x \in Cols /\ s.y \in Rows
             f1 == IF guarded /\ ~inside THEN fld
                   ELSE [fld EXCEPT ![s.y][s.x] = s.color]
         IN  Overlay(f1, st, Tail(names), guarded)

\* a mutant of Drawn: the overlays are not applied
Drawn_noOverlay(fld, st) == fld

\* the field draw() leaves and pushes: fld with the overlays of st on top
Drawn(fld, st) == Overlay(fld, st, StatusNames(variant), variant = "improved")

\* a mutant of Pushed: show() runs before the pixels are set
Pushed_showFirst(h, fld) ==
    [pixels |-> fld, shown |-> h.pixels, by |-> "draw"]

\* draw(), second loop and show(): every cell of fld is set in the buffer
\* of the HAT h and the buffer is shown
Pushed(h, fld) == [pixels |-> fld, shown |-> fld, by |-> "draw"]

\* the HAT as its constructor leaves it: nothing set, nothing shown
FreshHat == [pixels |-> Blank, shown |-> Blank, by |-> "none"]

\* a mutant of Cleared: clear() without show()
Cleared_noShow == [pixels |-> Blank, shown |-> hat.shown, by |-> "clear"]

\* hat.clear(); hat.show()
Cleared == [pixels |-> Blank, shown |-> Blank, by |-> "clear"]

draw ==
    /\ field' = Drawn(field, status)
    /\ hat' = Pushed(hat, field')
    /\ last' = Op("draw", 1)
    /\ UNCHANGED << status, paused, mode, exit, last_time_update >>

\* a mutant of ResetField: reset() keeps the rows it finds
ResetField_noClear(fld) == IF fld = << >> THEN Blank ELSE fld

\* reset(): the field, whatever it held, is rebuilt black before draw()
ResetField(fld) == Blank

reset ==
    /\ field' = Drawn(ResetField(field), status)
    /\ hat' = Pushed(hat, field')
    /\ last' = Op("reset", 1)
    /\ UNCHANGED << status, paused, mode, exit, last_time_update >>

\* a mutant of Recoloured: the colour lands on the okay indicator
Recoloured_okay(st, s, c) ==
    IF s \in DOMAIN st /\ "okay" \in DOMAIN st
    THEN [st EXCEPT !["okay"].color = c] ELSE st

\* a mutant of Recoloured: a name that is not registered is added
Recoloured_register(st, s, c) ==
    IF s \in DOMAIN st THEN [st EXCEPT ![s].color = c]
    ELSE (s :> Indicator(3, 6, c)) @@ st

\* a mutant of Recoloured: the recoloured indicator moves one column right
Recoloured_shifted(st, s, c) ==
    IF s \in DOMAIN st
    THEN [st EXCEPT ![s] = Indicator(st[s].x + 1, st[s].y, c)] ELSE st

\* self.status after setStatus(s, c).  BinClockLEDs.py rebuilds the entry
\* of "okay", "paused" or "mode" with its literal position; the other two
\* controllers replace the colour of a registered name.  Any other name
\* changes nothing.
Recoloured(st, s, c) ==
    IF variant = "buttons"
    THEN CASE s = "okay"   -> [st EXCEPT ![s] = Indicator(0, 6, c)]
           [] s = "paused" -> [st EXCEPT ![s] = Indicator(1, 6, c)]
           [] s = "mode"   -> [st EXCEPT ![s] = Indicator(2, 6, c)]
           [] OTHER        -> st
    ELSE IF s \in DOMAIN st THEN [st EXCEPT ![s].color = c] ELSE st

\* whether setStatus(s, ...) reaches its draw(): always in BinClockLEDs.py,
\* only for a registered name in the other two
SetStatusDraws(s) == variant = "buttons" \/ s \in DOMAIN status

\* setStatus(s, c) / set_status(s, c), called by the operation opname
SetStatusAs(opname, s, c) ==
    /\ status' = Recoloured(status, s, c)
    /\ IF SetStatusDraws(s)
       THEN /\ field' = Drawn(field, status')
            /\ hat' = Pushed(hat, field')
            /\ last' = Op(opname, 1)
       ELSE /\ UNCHANGED << field, hat >>
            /\ last' = Op(opname, 0)

setStatus(s, c) ==
    /\ SetStatusAs("setStatus", s, c)
    /\ UNCHANGED << paused, mode, exit, last_time_update >>

-----------------------------------------------------------------------------
(* The buttons' callbacks *)

HasButtons == variant \in {"buttons", "improved"}

\* a mutant of togglePause: the flag is negated and nothing else is done
togglePause_flagOnly ==
    /\ HasButtons
    /\ paused' = ~paused
    /\ last' = Op("togglePause", 0)
    /\ UNCHANGED << field, status, hat, mode, exit, last_time_update >>

\* a mutant of togglePause: the flag is set, never cleared
togglePause_setOnly ==
    /\ HasButtons
    /\ paused' = TRUE
    /\ SetStatusAs("togglePause", "paused",
                   IF paused' THEN config.status_error ELSE config.status_okay)
    /\ UNCHANGED << mode, exit, last_time_update >>

\* a mutant of togglePause: the exit request is withdrawn
togglePause_rearms ==
    /\ HasButtons
    /\ paused' = ~paused
    /\ exit' = FALSE
    /\ SetStatusAs("togglePause", "paused",
                   IF paused' THEN config.status_error ELSE config.status_okay)
    /\ UNCHANGED << mode, last_time_update >>

togglePause ==
    /\ HasButtons
    /\ paused' = ~paused
    /\ SetStatusAs("togglePause", "paused",
                   IF paused' THEN config.status_error ELSE config.status_okay)
    /\ UNCHANGED << mode, exit, last_time_update >>

\* a mutant of toggleMode: the mode goes to scrollclock and stays there
toggleMode_oneWay ==
    /\ HasButtons
    /\ mode' = "scrollclock"
    /\ SetStatusAs("toggleMode", "mode",
                   IF mode = "binclock" THEN config.status_info
                                        ELSE config.status_warn)
    /\ UNCHANGED << paused, exit, last_time_update >>

\* a mutant of toggleMode: the colour is given to the okay indicator
toggleMode_onOkay ==
    /\ HasButtons
    /\ mode' = IF mode = "binclock" THEN "scrollclock" ELSE "binclock"
    /\ SetStatusAs("toggleMode", "okay",
                   IF mode = "binclock" THEN config.status_info
                                        ELSE config.status_warn)
    /\ UNCHANGED << paused, exit, last_time_update >>

toggleMode ==
    /\ HasButtons
    /\ mode' = IF mode = "binclock" THEN "scrollclock" ELSE "binclock"
    /\ SetStatusAs("toggleMode", "mode",
                   IF mode = "binclock" THEN config.status_info
                                        ELSE config.status_warn)
    /\ UNCHANGED << paused, exit, last_time_update >>

\* a mutant of setExit: the exit request also resumes a paused clock
setExit_resumes ==
    /\ HasButtons
    /\ exit' = TRUE
    /\ paused' = FALSE
    /\ last' = Op("setExit", 0)
    /\ UNCHANGED << field, status, hat, mode, last_time_update >>

setExit ==
    /\ HasButtons
    /\ exit' = TRUE
    /\ last' = Op("setExit", 0)
    /\ UNCHANGED << field, status, hat, paused, mode, last_time_update >>

-----------------------------------------------------------------------------
(* The time rows *)

Reverse(s) == [i \in 1..Len(s) |-> s[Len(s) + 1 - i]]

\* a mutant of CellColumn: bit index led goes to column led
CellColumn_fromLeft(led) == led

\* the column of bit index led of a reversed vector: 16 - led
CellColumn(led) == LastColumn - led

\* a mutant of WriteRow: only the 1 bits are written; a 0 bit leaves its
\* cell as it was
WriteRow_onOnly(fld, r, i, on, off) ==
    [fld EXCEPT ![r] =
        [x \in Cols |->
            IF LastColumn - x < Len(i) /\ i[LastColumn - x + 1] = 1
            THEN on ELSE @[x]]]

\* for led in range(len(i)): field[r][16 - led] = on if i[led] == 1 else off
\* (a vector has at most 17 bits for any year up to 9999, so 16 - led is a
\* column of the grid and the improved controller's range test passes)
WriteRow(fld, r, i, on, off) ==
    [fld EXCEPT ![r] =
        [x \in Cols |->
            IF \E led \in 0..(Len(i) - 1) : CellColumn(led) = x
            THEN LET led == CHOOSE l \in 0..(Len(i) - 1) : CellColumn(l) = x
                 IN  IF i[led + 1] = 1 THEN on ELSE off
            ELSE @[x]]]

\* the three things a row update reads and writes
RowState(b, fld, ltu) == [binary |-> b, field |-> fld, ltu |-> ltu]

\* one pass of the for loop of BinClockLEDs.py 200-231 and of
\* BinClockLEDs_nobuttons.py 136-154, for row r: the vector is reversed
\* in place and written from the right edge
InlineRow(c, r) ==
    LET f == FieldNames[r + 1]
        i == Reverse(c.binary[f])
    IN  RowState([c.binary EXCEPT ![f] = i],
                 WriteRow(c.field, r, i, config.on_color, config.off_color),
                 c.ltu)

\* last_time_update.get(name) != binary_data
Changed(ltu, f, bits) == f \notin DOMAIN ltu \/ ltu[f] # bits

\* one pass of the for loop of update_binary_display, for row r: a vector
\* equal to the one remembered is skipped; otherwise it is remembered
\* (a copy), reversed in place and written
ImprovedRow(c, r) ==
    LET f == FieldNames[r + 1]
        i == Reverse(c.binary[f])
    IN  IF Changed(c.ltu, f, c.binary[f])
        THEN RowState([c.binary EXCEPT ![f] = i],
                      WriteRow(c.field, r, i, config.on_color, config.off_color),
                      (f :> c.binary[f]) @@ c.ltu)
        ELSE c

RowPass(c, r) == IF variant = "improved" THEN ImprovedRow(c, r) ELSE InlineRow(c, r)

RECURSIVE RowsFrom(_, _)
\* the passes for rows r .. 5
RowsFrom(c, r) == IF r >= Len(FieldNames) THEN c ELSE RowsFrom(RowPass(c, r), r + 1)

\* the whole for loop / update_binary_display(ct)
update_rows ==
    LET c == RowsFrom(RowState(binary, field, last_time_update), 0)
    IN  /\ binary' = c.binary
        /\ field' = c.field
        /\ last_time_update' = c.ltu
        /\ last' = Op("update_rows", 0)
        /\ UNCHANGED << now, status, hat, paused, mode, exit >>

\* the grid and the vectors of a controller
Shadow(b, fld) == [binary |-> b, field |-> fld]

RECURSIVE InlineRowsFrom(_, _)
\* the loop of update_binary_display without line 288: rows r .. 5 are
\* all reversed in place and written
InlineRowsFrom(c, r) ==
    IF r >= Len(FieldNames) THEN c ELSE InlineRowsFrom(InlineRow(c, r), r + 1)

\* update_binary_display on sh with every row rewritten
AllRowsRewritten(sh) ==
    LET c == InlineRowsFrom(RowState(sh.binary, sh.field, << >>), 0)
    IN  Shadow(c.binary, c.field)

\* __exit__ / cleanup(): the HAT is cleared and shown (the buttons closed)
cleanup ==
    /\ hat' = Cleared
    /\ last' = Op("cleanup", 1)
    /\ UNCHANGED << field, status, paused, mode, exit, last_time_update >>

-----------------------------------------------------------------------------
(* Spec: a controller and a CurrentTime, called method by method *)

StatusArgs == { "okay", "paused", "mode", "heartbeat", "bogus" }
ColourArgs == { << 255, 0, 0 >>, << 0, 255, 0 >> }

\* after LEDController(...) / LEDControllerNoButtons(...) and CurrentTime()
Init ==
    /\ variant \in Variants
    /\ config \in ConfigsOf(variant)
    /\ now \in Times
    /\ binary = Encode(now)
    /\ paused = FALSE /\ mode = "binclock" /\ exit = FALSE
    /\ last_time_update = << >>
    /\ status = InitialStatus(variant, config)
    /\ field = Drawn(ResetField(<< >>), status)
    /\ hat = Pushed(FreshHat, field)
    /\ last = Constructed(1)
    /\ pc = "ready" /\ row = 0 /\ offset_x = 0 /\ calls = 0
    /\ mode_toggles = 0 /\ pause_toggles = 0 /\ farewell_shown = FALSE
    /\ shadow = Shadow(binary, field)
    /\ file = NoFile

Called ==
    /\ pc = "ready"
    /\ calls < MaxCalls
    /\ calls' = calls + 1
    /\ UNCHANGED << variant, config, pc, row, offset_x, farewell_shown, file >>

\* the same call made on the controller that rewrites every row: a call
\* that ends in draw() puts the overlays of st on its grid
ShadowDrawn(st) == [shadow EXCEPT !.field = Drawn(@, st)]

call_update ==
    /\ Called
    /\ \E t \in Times : CurrentTime_update(t)
    /\ last' = Op("update", 0)
    /\ shadow' = [shadow EXCEPT !.binary = binary']
    /\ UNCHANGED << field, status, hat, paused, mode, exit, last_time_update >>
    /\ UNCHANGED << mode_toggles, pause_toggles >>

call_update_rows ==
    /\ Called
    /\ update_rows
    /\ shadow' = AllRowsRewritten(shadow)
    /\ UNCHANGED << mode_toggles, pause_toggles >>

call_reset ==
    /\ Called
    /\ reset
    /\ shadow' = [shadow EXCEPT !.field = Drawn(ResetField(@), status)]
    /\ UNCHANGED << now, binary, mode_toggles, pause_toggles >>

call_setStatusWith(s, c) ==
    /\ Called
    /\ setStatus(s, c)
    /\ shadow' = (IF SetStatusDraws(s) THEN ShadowDrawn(status') ELSE shadow)
    /\ UNCHANGED << now, binary, mode_toggles, pause_toggles >>

call_setStatus == \E s \in StatusArgs, c \in ColourArgs : call_setStatusWith(s, c)

call_draw ==
    /\ Called
    /\ draw
    /\ shadow' = ShadowDrawn(status)
    /\ UNCHANGED << now, binary, mode_toggles, pause_toggles >>

call_togglePause ==
    /\ Called
    /\ togglePause
    /\ pause_toggles' = pause_toggles + 1
    /\ shadow' = ShadowDrawn(status')
    /\ UNCHANGED << now, binary, mode_toggles >>

call_toggleMode ==
    /\ Called
    /\ toggleMode
    /\ mode_toggles' = mode_toggles + 1
    /\ shadow' = ShadowDrawn(status')
    /\ UNCHANGED << now, binary, pause_toggles >>

call_setExit ==
    /\ Called
    /\ setExit
    /\ UNCHANGED << now, binary, mode_toggles, pause_toggles, shadow >>

\* leaving the with block
call_exit ==
    /\ pc = "ready"
    /\ cleanup
    /\ pc' = "closed"
    /\ UNCHANGED << variant, config, row, offset_x, calls, now, binary, histVars,
                    file >>

Next ==
    \/ call_update
    \/ call_update_rows
    \/ call_reset
    \/ call_setStatus
    \/ call_draw
    \/ call_togglePause
    \/ call_toggleMode
    \/ call_setExit
    \/ call_exit

Spec == Init /\ [][Next]_vars

-----------------------------------------------------------------------------
(* writeText / write_text: the scrolling text *)

\* image.size[0]: text_width + self.width + self.width
ImageWidth == TextWidth + Width + Width

\* image.getpixel((x, y)) == 255: the text is drawn from column self.width
\* on; which of its pixels the font sets is the rasteriser's business, a
\* checkerboard stands for it
ImageLit(x, y) ==
    /\ x >= Width
    /\ x < Width + TextWidth
    /\ (x + y) % 2 = 0

\* the nested for loops of writeText: every pixel of the HAT's buffer is
\* set from the image at the scroll offset
TextFrame(off, c) ==
    [y \in Rows |-> [x \in Cols |-> IF ImageLit(x + off, y) THEN c ELSE BLACK]]

\* hat.show() by the text loop
ShowText == [hat EXCEPT !.shown = hat.pixels, !.by = "text"]

-----------------------------------------------------------------------------
(* SpecLoop: the driving loops BinClockLEDs() *)

InitLoop ==
    /\ variant \in Variants
    /\ config \in ConfigsOf(variant)
    /\ now \in Times
    /\ binary = Encode(now)
    /\ paused = FALSE /\ mode = "binclock" /\ exit = FALSE
    /\ last_time_update = << >>
    /\ status = InitialStatus(variant, config)
    /\ field = Drawn(ResetField(<< >>), status)
    /\ hat = Pushed(FreshHat, field)
    /\ last = Constructed(1)
    /\ pc = (IF variant = "nobuttons" THEN "update" ELSE "check_exit")
    /\ row = 0 /\ offset_x = 0 /\ calls = 0
    /\ NoHistory
    /\ file = NoFile

fixedVars == << variant, config, calls, mode_toggles, pause_toggles, shadow, file >>
ctVars    == << now, binary >>
ledVars   == << field, status, hat, paused, mode, exit, last_time_update >>

\* a mutant of LoopTop: an iteration starts below the test of leds.exit
LoopTop_belowExitTest == IF variant = "nobuttons" THEN "update" ELSE "check_paused"

\* the first statement of an iteration of the while loop
LoopTop == IF variant = "nobuttons" THEN "update" ELSE "check_exit"

\* the first statement of writeText for the two texts
TextStart(kind) ==
    CASE variant = "buttons"  /\ kind = "farewell" -> "farewell_render"
      [] variant = "buttons"  /\ kind = "scroll"   -> "scroll_render"
      [] variant = "improved" /\ kind = "farewell" -> "farewell_test"
      [] variant = "improved" /\ kind = "scroll"   -> "scroll_test"

\* where the loop goes when writeText returns
TextDone(kind) == IF kind = "farewell" THEN "leave" ELSE "sleep"

\* a statement of the loop that calls no show()
Step(name) == Op("loop", 0)

\* if leds.exit: writeExit(); break
loop_check_exit ==
    /\ pc = "check_exit"
    /\ pc' = IF exit THEN TextStart("farewell") ELSE "check_paused"
    /\ offset_x' = 0
    /\ last' = Step("check_exit")
    /\ UNCHANGED << row, fixedVars, farewell_shown, ctVars, ledVars >>

\* if leds.paused: continue
loop_check_paused ==
    /\ pc = "check_paused"
    /\ pc' = IF paused THEN LoopTop ELSE "check_mode"
    /\ last' = Step("check_paused")
    /\ UNCHANGED << row, offset_x, fixedVars, farewell_shown, ctVars, ledVars >>

\* a mutant of loop_check_mode: the mode is not tested
loop_check_mode_noTest ==
    /\ pc = "check_mode"
    /\ pc' = "update"
    /\ offset_x' = 0
    /\ last' = Step("check_mode")
    /\ UNCHANGED << row, fixedVars, farewell_shown, ctVars, ledVars >>

\* if leds.mode == "scrollclock": writeText(ct.now...); sleep(1); continue
loop_check_mode ==
    /\ pc = "check_mode"
    /\ pc' = IF mode = "scrollclock" THEN TextStart("scroll") ELSE "update"
    /\ offset_x' = 0
    /\ last' = Step("check_mode")
    /\ UNCHANGED << row, fixedVars, farewell_shown, ctVars, ledVars >>

\* ct.update()
loop_update ==
    /\ pc = "update"
    /\ \E t \in Times : CurrentTime_update(t)
    /\ pc' = "status"
    /\ last' = Step("update")
    /\ UNCHANGED << row, offset_x, fixedVars, farewell_shown, ledVars >>

\* leds.setStatus("okay", leds.OKAY) / leds.setStatus("heartbeat", [0, 0, 0])
loop_status ==
    /\ pc = "status"
    /\ IF variant = "nobuttons"
       THEN SetStatusAs("setStatus", "heartbeat", << 0, 0, 0 >>)
       ELSE SetStatusAs("setStatus", "okay", config.status_okay)
    /\ pc' = "rows"
    /\ row' = 0
    /\ UNCHANGED << offset_x, fixedVars, farewell_shown, ctVars, paused, mode, exit,
                    last_time_update >>

\* one pass of the for loop over the six vectors
loop_row ==
    /\ pc = "rows"
    /\ LET c == RowPass(RowState(binary, field, last_time_update), row)
       IN  /\ binary' = c.binary
           /\ field' = c.field
           /\ last_time_update' = c.ltu
    /\ row' = row + 1
    /\ pc' = IF row + 1 = Len(FieldNames) THEN "draw" ELSE "rows"
    /\ last' = Step("row")
    /\ UNCHANGED << now, offset_x, fixedVars, farewell_shown, status, hat, paused, mode, exit >>

\* leds.draw()
loop_draw ==
    /\ pc = "draw"
    /\ draw
    /\ pc' = "sleep"
    /\ UNCHANGED << row, offset_x, fixedVars, farewell_shown, ctVars >>

\* sleep(...) and back to the top of the while loop
loop_sleep ==
    /\ pc = "sleep"
    /\ pc' = LoopTop
    /\ last' = Step("sleep")
    /\ UNCHANGED << row, offset_x, fixedVars, farewell_shown, ctVars, ledVars >>

TextKinds == { "farewell", "scroll" }

\* BinClockLEDs.py 126-133: the frame at offset_x is put in the buffer and
\* offset_x is advanced
text_render_buttons(kind) ==
    /\ variant = "buttons"
    /\ pc = (IF kind = "farewell" THEN "farewell_render" ELSE "scroll_render")
    /\ hat' = [hat EXCEPT !.pixels = TextFrame(offset_x, OKAY)]
    /\ offset_x' = offset_x + 1
    /\ pc' = (IF kind = "farewell" THEN "farewell_check" ELSE "scroll_check")
    /\ last' = Step("text_render")
    /\ UNCHANGED << row, fixedVars, farewell_shown, ctVars, field, status, paused, mode, exit,
                    last_time_update >>

\* BinClockLEDs.py 134-142: the two breaks, then show() unless paused
text_check_buttons(kind) ==
    /\ variant = "buttons"
    /\ pc = (IF kind = "farewell" THEN "farewell_check" ELSE "scroll_check")
    /\ IF offset_x + Width > ImageWidth \/ mode = "binclock"
       THEN /\ pc' = TextDone(kind)
            /\ hat' = hat
            /\ last' = Step("text_break")
       ELSE /\ pc' = (IF kind = "farewell" THEN "farewell_render"
                                           ELSE "scroll_render")
            /\ hat' = (IF paused THEN hat ELSE ShowText)
            /\ last' = Op("loop", IF paused THEN 0 ELSE 1)
    /\ farewell_shown' = (farewell_shown \/ (kind = "farewell" /\ last'.shows = 1))
    /\ UNCHANGED << row, offset_x, fixedVars, ctVars, field, status, paused,
                    mode, exit, last_time_update >>

\* BinClockLEDs_improved.py 249-251: the while test and the break
text_test_improved(kind) ==
    /\ variant = "improved"
    /\ pc = (IF kind = "farewell" THEN "farewell_test" ELSE "scroll_test")
    /\ pc' = IF offset_x + Width <= ImageWidth
                /\ ~(mode # "scrollclock" \/ exit)
             THEN (IF kind = "farewell" THEN "farewell_render"
                                        ELSE "scroll_render")
             ELSE TextDone(kind)
    /\ last' = Step("text_test")
    /\ UNCHANGED << row, offset_x, fixedVars, farewell_shown, ctVars, ledVars >>

\* BinClockLEDs_improved.py 253-258: the frame at offset_x is put in the
\* buffer
text_render_improved(kind) ==
    /\ variant = "improved"
    /\ pc = (IF kind = "farewell" THEN "farewell_render" ELSE "scroll_render")
    /\ hat' = [hat EXCEPT !.pixels = TextFrame(offset_x, config.status_okay)]
    /\ pc' = (IF kind = "farewell" THEN "farewell_show" ELSE "scroll_show")
    /\ last' = Step("text_render")
    /\ UNCHANGED << row, offset_x, fixedVars, farewell_shown, ctVars, field, status, paused,
                    mode, exit, last_time_update >>

\* BinClockLEDs_improved.py 260-264: show() unless paused; offset_x += 1
text_show_improved(kind) ==
    /\ variant = "improved"
    /\ pc = (IF kind = "farewell" THEN "farewell_show" ELSE "scroll_show")
    /\ hat' = (IF paused THEN hat ELSE ShowText)
    /\ offset_x' = offset_x + 1
    /\ pc' = (IF kind = "farewell" THEN "farewell_test" ELSE "scroll_test")
    /\ last' = Op("loop", IF paused THEN 0 ELSE 1)
    /\ farewell_shown' = (farewell_shown \/ (kind = "farewell" /\ last'.shows = 1))
    /\ UNCHANGED << row, fixedVars, ctVars, field, status, paused, mode, exit,
                    last_time_update >>

loop_text ==
    \E kind \in TextKinds :
        \/ text_render_buttons(kind)
        \/ text_check_buttons(kind)
        \/ text_test_improved(kind)
        \/ text_render_improved(kind)
        \/ text_show_improved(kind)

\* after the break.  BinClockLEDs.py: the finally clause tests
\* "leds" in locals(), and leds is a global, so nothing is cleared.
\* BinClockLEDs_improved.py: the with block's __exit__ and the finally
\* clause both call cleanup().
loop_leave ==
    /\ pc = "leave"
    /\ IF variant = "improved"
       THEN cleanup
       ELSE /\ last' = Step("leave")
            /\ UNCHANGED ledVars
    /\ pc' = "ended"
    /\ UNCHANGED << row, offset_x, fixedVars, farewell_shown, ctVars >>

\* signal_handler (SIGTERM, SIGINT): the HAT is cleared and shown, then
\* sys.exit(0)
loop_signal ==
    /\ pc # "ended"
    /\ cleanup
    /\ pc' = "ended"
    /\ UNCHANGED << row, offset_x, fixedVars, farewell_shown, ctVars >>

Running == pc # "ended"

\* button A, B, X pressed: the callbacks run between two steps of the loop
press_a == Running /\ togglePause /\ UNCHANGED << pc, row, offset_x, fixedVars, farewell_shown, ctVars >>
press_b == Running /\ toggleMode /\ UNCHANGED << pc, row, offset_x, fixedVars, farewell_shown, ctVars >>
press_x == Running /\ setExit /\ UNCHANGED << pc, row, offset_x, fixedVars, farewell_shown, ctVars >>

NextLoop ==
    \/ loop_check_exit
    \/ loop_check_paused
    \/ loop_check_mode
    \/ loop_update
    \/ loop_status
    \/ loop_row
    \/ loop_draw
    \/ loop_sleep
    \/ loop_text
    \/ loop_leave
    \/ loop_signal
    \/ press_a
    \/ press_b
    \/ press_x

SpecLoop == InitLoop /\ [][NextLoop]_vars

-----------------------------------------------------------------------------
(* SpecExit: the driving loop of BinClockLEDs.py and its thread *)

\* BinClockLEDs() of BinClockLEDs.py, watched within one second of the
\* clock: no test of the loop or of writeText reads the timestamp
InitExit ==
    /\ InitLoop
    /\ variant = "buttons"
    /\ now = Timestamp(2047, 12, 31, 23, 59, 59)

\* ct.update() reading the instant the last capture read
loop_update_same == loop_update /\ now' = now

\* a statement of writeText
buttons_text ==
    \E kind \in TextKinds : text_render_buttons(kind) \/ text_check_buttons(kind)

\* the steps of the thread that runs BinClockLEDs(); the button callbacks
\* and the signal handler are not among them
LoopStep ==
    \/ loop_check_exit
    \/ loop_check_paused
    \/ loop_check_mode
    \/ loop_update_same
    \/ loop_status
    \/ loop_row
    \/ loop_draw
    \/ loop_sleep
    \/ buttons_text
    \/ loop_leave

NextExit ==
    \/ LoopStep
    \/ loop_signal
    \/ press_a
    \/ press_b
    \/ press_x

\* the loop's thread is scheduled again and again; nothing is assumed of
\* the buttons or of signals
SpecExit == InitExit /\ [][NextExit]_vars /\ WF_vars(LoopStep)

-----------------------------------------------------------------------------
(* config.py: the configuration and its file *)

\* brightness, refresh_rate and debounce_time are fractions; the model
\* counts them in tenths (0.1 is 1, 1.0 is 10)

\* DisplayConfig's field defaults, lines 46-50
DisplayDefaults ==
    [ rotation |-> 180, brightness |-> 1, width |-> 17, height |-> 7,
      refresh_rate |-> 10 ]

\* ButtonConfig's field defaults, lines 72-76
ButtonDefaults ==
    [ button_a_pin |-> 5, button_b_pin |-> 6, button_x_pin |-> 16,
      button_y_pin |-> 24, debounce_time |-> 3 ]

\* Config(): cls() at line 106
DefaultConfig ==
    [ display |-> DisplayDefaults, colors |-> DefaultColors,
      buttons |-> ButtonDefaults,
      font_path |-> "/usr/local/lib/pybinclock/5x7.ttf",
      log_level |-> "INFO", enable_buttons |-> TRUE ]

\* the two ways a constructor call ends
Raise(e)  == [raised |-> e, value |-> << >>]
Return(v) == [raised |-> "none", value |-> v]

\* a mutant of Dataclass: the defaults win over the keyword arguments
Dataclass_defaultsWin(defaults, kw) ==
    IF DOMAIN kw \subseteq DOMAIN defaults
    THEN Return(defaults @@ kw) ELSE Raise("TypeError")

\* the __init__ a dataclass generates, called with the keyword arguments
\* kw: a keyword that is no field is a TypeError, a field not given takes
\* its default
Dataclass(defaults, kw) ==
    IF DOMAIN kw \subseteq DOMAIN defaults
    THEN Return(kw @@ defaults) ELSE Raise("TypeError")

\* a mutant of PostInitRaises: the refresh rate is not tested
PostInitRaises_noRefresh(d) ==
    \/ d.rotation \notin {0, 90, 180, 270}
    \/ ~(0 <= d.brightness /\ d.brightness <= 10)

\* DisplayConfig.__post_init__: whether one of the three tests raises
PostInitRaises(d) ==
    \/ d.rotation \notin {0, 90, 180, 270}
    \/ ~(0 <= d.brightness /\ d.brightness <= 10)
    \/ d.refresh_rate <= 0

\* DisplayConfig(**kw)
DisplayConfig(kw) ==
    LET r == Dataclass(DisplayDefaults, kw)
    IN  IF r.raised # "none" THEN r
        ELSE IF PostInitRaises(r.value) THEN Raise("ValueError")
        ELSE r

\* ColorScheme(**kw): a colour not given is None and __post_init__ gives
\* it its default; a colour given is kept as it is, whatever it is
ColorScheme(kw) == Dataclass(DefaultColors, kw)

\* ButtonConfig(**kw)
ButtonConfig(kw) == Dataclass(ButtonDefaults, kw)

\* the keys k of the files below with k.startswith("_")
UnderscoreKeys == { "_comment" }

\* {k: v for k, v in section.items() if not k.startswith("_")}
Kwargs(section) ==
    [k \in DOMAIN section \ UnderscoreKeys |-> section[k]]

\* data.get(k, default)
Get(data, k, default) == IF k \in DOMAIN data THEN data[k] ELSE default

\* a path with no file, a file json.load rejects, a file holding the
\* JSON object data
Missing     == [exists |-> FALSE, parses |-> FALSE, data |-> << >>]
Garbage     == [exists |-> TRUE,  parses |-> FALSE, data |-> << >>]
JsonFile(d) == [exists |-> TRUE,  parses |-> TRUE,  data |-> d]

\* Config.load(config_path), lines 106-158: the try block assigns the
\* sections one after the other; an exception at any statement ends the
\* block and the configuration as it then stands is returned
Load(f) ==
    LET config0 == DefaultConfig
        data    == f.data
        d == DisplayConfig(Kwargs(data["display"]))
        config1 == IF "display" \in DOMAIN data
                   THEN [config0 EXCEPT !.display = d.value] ELSE config0
        c == ColorScheme(Kwargs(data["colors"]))
        config2 == IF "colors" \in DOMAIN data
                   THEN [config1 EXCEPT !.colors = c.value] ELSE config1
        b == ButtonConfig(Kwargs(data["buttons"]))
        config3 == IF "buttons" \in DOMAIN data
                   THEN [config2 EXCEPT !.buttons = b.value] ELSE config2
    IN  IF ~f.exists \/ ~f.parses THEN config0
        ELSE IF "display" \in DOMAIN data /\ d.raised # "none" THEN config0
        ELSE IF "colors" \in DOMAIN data /\ c.raised # "none" THEN config1
        ELSE IF "buttons" \in DOMAIN data /\ b.raised # "none" THEN config2
        ELSE [config3 EXCEPT
                !.font_path = Get(data, "font_path", config3.font_path),
                !.log_level = Get(data, "log_level", config3.log_level),
                !.enable_buttons =
                    Get(data, "enable_buttons", config3.enable_buttons)]

-----------------------------------------------------------------------------
(* SpecConfig: DisplayConfig(...), Config.load(path), save, the sample *)

\* the display sections of the files: none, empty, one setting, all
\* settings, a comment key, a value __post_init__ rejects, a key that is
\* no field
DisplaySections ==
    { << >>,
      [display |-> << >>],
      [display |-> [rotation |-> 90]],
      [display |-> [brightness |-> 10]],
      [display |-> [rotation |-> 0, brightness |-> 0, width |-> 8,
                    height |-> 8, refresh_rate |-> 20]],
      [display |-> [_comment |-> "Display settings", rotation |-> 270]],
      [display |-> [rotation |-> 45]],
      [display |-> [brightness |-> 11]],
      [display |-> [refresh_rate |-> 0]],
      [display |-> [rotation |-> 90, bogus |-> 1]] }

ColorSections ==
    { << >>,
      [colors |-> [on_color |-> << 0, 255, 255 >>]],
      [colors |-> [_comment |-> "RGB", on_color |-> << 0, 255, 255 >>,
                   off_color |-> << 0, 0, 8 >>]],
      [colors |-> [on_color |-> << 0, 255, 255 >>, bogus |-> 1]] }

ButtonSections ==
    { << >>,
      [buttons |-> [button_a_pin |-> 10, debounce_time |-> 5]],
      [buttons |-> [button_a_pin |-> 10, bogus |-> 1]] }

TopSettings ==
    { << >>,
      [log_level |-> "DEBUG"],
      [font_path |-> "/tmp/font.ttf", enable_buttons |-> FALSE] }

\* what Config.load may find at config_path
Files ==
    { Missing, Garbage } \cup
    { JsonFile(d @@ c @@ b @@ t) :
        d \in DisplaySections, c \in ColorSections,
        b \in ButtonSections, t \in TopSettings }

\* the arguments DisplayConfig is constructed with
RotationArgs    == { -90, 0, 45, 90, 180, 270, 360 }
BrightnessArgs  == { -1, 0, 5, 10, 11 }
RefreshRateArgs == { -10, 0, 1, 20 }

\* before anything of config.py has run: no configuration object yet
InitConfig ==
    /\ variant = "config"
    /\ file \in Files
    /\ config = Idle
    /\ pc = "start"
    /\ last = Constructed(0)
    /\ now = Idle /\ binary = Idle
    /\ field = Idle /\ status = Idle /\ hat = Idle
    /\ last_time_update = Idle
    /\ paused = FALSE /\ mode = "config" /\ exit = FALSE
    /\ row = 0 /\ offset_x = 0 /\ calls = 0
    /\ NoHistory

restVars == << variant, now, binary, field, status, hat, paused, mode, exit,
               last_time_update, row, offset_x, calls, histVars >>

\* DisplayConfig(rotation=r, brightness=b, refresh_rate=rr): the object, or
\* the exception and no object
new_DisplayConfig(r, b, rr) ==
    /\ pc = "start"
    /\ LET res == DisplayConfig([rotation |-> r, brightness |-> b,
                                 refresh_rate |-> rr])
       IN  /\ config' = (IF res.raised = "none" THEN res.value ELSE config)
           /\ last' = [Op("DisplayConfig", 0) EXCEPT !.raised = res.raised]
    /\ pc' = "constructed"
    /\ UNCHANGED << file, restVars >>

config_construct ==
    \E r \in RotationArgs, b \in BrightnessArgs, rr \in RefreshRateArgs :
        new_DisplayConfig(r, b, rr)

\* config = Config.load(path), on the file found there or on the sample
\* just written
config_load ==
    /\ pc \in {"start", "sampled"}
    /\ config' = Load(file)
    /\ last' = Op("load", 0)
    /\ pc' = "loaded"
    /\ UNCHANGED << file, restVars >>

\* a mutant of Saved: the buttons section is not written
Saved_noButtons(c) ==
    JsonFile([ display |-> c.display, colors |-> c.colors,
               font_path |-> c.font_path, log_level |-> c.log_level,
               enable_buttons |-> c.enable_buttons ])

\* the file save() writes for the configuration c, lines 167-180: the
\* three sections as dicts of their fields and the three settings
Saved(c) ==
    JsonFile([ display |-> c.display, colors |-> c.colors,
               buttons |-> c.buttons,
               font_path |-> c.font_path, log_level |-> c.log_level,
               enable_buttons |-> c.enable_buttons ])

\* the file create_sample_config() writes, lines 191-227
SampleFile ==
    JsonFile(
      [ _comment |-> "PyBinClock configuration file",
        display |-> [ _comment |-> "Display settings", rotation |-> 180,
                      brightness |-> 1, width |-> 17, height |-> 7,
                      refresh_rate |-> 10 ],
        colors |-> [ _comment |-> "RGB color values [R, G, B] (0-255)",
                     on_color |-> << 255, 0, 0 >>,
                     off_color |-> << 0, 0, 0 >>,
                     status_okay |-> << 0, 255, 0 >>,
                     status_error |-> << 255, 0, 0 >>,
                     status_warn |-> << 255, 255, 0 >>,
                     status_info |-> << 0, 0, 255 >> ],
        buttons |-> [ _comment |-> "GPIO pin assignments",
                      button_a_pin |-> 5, button_b_pin |-> 6,
                      button_x_pin |-> 16, button_y_pin |-> 24,
                      debounce_time |-> 3 ],
        font_path |-> "/usr/local/lib/pybinclock/5x7.ttf",
        log_level |-> "INFO",
        enable_buttons |-> TRUE ])

\* config.save(path), on the configuration a load returned
config_save ==
    /\ pc = "loaded"
    /\ file' = Saved(config)
    /\ last' = Op("save", 0)
    /\ pc' = "saved"
    /\ UNCHANGED << config, restVars >>

\* Config.load(path) of the file save() wrote
config_reload ==
    /\ pc = "saved"
    /\ config' = Load(file)
    /\ last' = Op("reload", 0)
    /\ pc' = "reloaded"
    /\ UNCHANGED << file, restVars >>

\* Config().create_sample_config(path): whatever was at path is replaced
config_sample ==
    /\ pc = "start"
    /\ file' = SampleFile
    /\ last' = Op("create_sample_config", 0)
    /\ pc' = "sampled"
    /\ UNCHANGED << config, restVars >>

NextConfig ==
    \/ config_construct
    \/ config_load
    \/ config_save
    \/ config_reload
    \/ config_sample

SpecConfig == InitConfig /\ [][NextConfig]_vars

-----------------------------------------------------------------------------
(* Properties of the configuration (SpecConfig) *)

\* C21: constructing a DisplayConfig succeeds exactly when rotation is one
\* of 0, 90, 180, 270, brightness lies in [0.0, 1.0] inclusive and
\* refresh_rate is strictly positive; any other combination raises
\* ValueError and yields no configuration object.
C21_DisplayValidation ==
    [][ \A r \in RotationArgs, b \in BrightnessArgs, rr \in RefreshRateArgs :
          (last'.op = "DisplayConfig" /\ new_DisplayConfig(r, b, rr)) =>
              IF r \in {0, 90, 180, 270} /\ b >= 0 /\ b <= 10 /\ rr > 0
              THEN /\ last'.raised = "none"
                   /\ DOMAIN config' = DOMAIN DisplayDefaults
                   /\ config'.rotation = r
                   /\ config'.brightness = b
                   /\ config'.refresh_rate = rr
              ELSE /\ last'.raised = "ValueError"
                   /\ DOMAIN config' = {} ]_vars

\* DisplayConfig(rotation=270, brightness=1.0, refresh_rate=0.1): both
\* ends of the accepted ranges
C21_Witness ==
    /\ pc = "constructed"
    /\ last.op = "DisplayConfig"
    /\ last.raised = "none"
    /\ config.rotation = 270
    /\ config.brightness = 10
    /\ config.refresh_rate = 1
    /\ config.width = 17

\* the fields of the three sections
SectionFields ==
    [ display |-> { "rotation", "brightness", "width", "height", "refresh_rate" },
      colors  |-> { "on_color", "off_color", "status_okay", "status_error",
                    "status_warn", "status_info" },
      buttons |-> { "button_a_pin", "button_b_pin", "button_x_pin",
                    "button_y_pin", "debounce_time" } ]

TopLevelSettings == { "font_path", "log_level", "enable_buttons" }

\* the file is there, is JSON, names only fields in its sections (keys
\* that start with an underscore aside) and gives the display values
\* DisplayConfig accepts
Applies(f) ==
    /\ f.exists
    /\ f.parses
    /\ \A s \in DOMAIN SectionFields \cap DOMAIN f.data :
          (DOMAIN f.data[s] \ UnderscoreKeys) \subseteq SectionFields[s]
    /\ "display" \in DOMAIN f.data =>
          LET d == f.data["display"]
          IN  /\ "rotation" \in DOMAIN d => d["rotation"] \in {0, 90, 180, 270}
              /\ "brightness" \in DOMAIN d =>
                    (d["brightness"] >= 0 /\ d["brightness"] <= 10)
              /\ "refresh_rate" \in DOMAIN d => d["refresh_rate"] > 0

\* C22: Config.load never raises: when the file is missing, or when
\* reading or applying it fails at any point (invalid JSON, an invalid
\* value or an unknown key in any section), the returned configuration
\* equals the all-defaults configuration in every section.
C22_FailedLoadIsDefault ==
    pc = "loaded" =>
        /\ last.raised = "none"
        /\ ~Applies(file) => config = DefaultConfig

\* C23: Config.load of a valid file overrides exactly the settings present
\* in the file: every setting given in the display, colors or buttons
\* section or at top level takes the file's value, and every setting
\* absent from the file keeps its default value.
C23_LoadOverrides ==
    (pc = "loaded" /\ Applies(file)) =>
        /\ \A s \in DOMAIN SectionFields : \A k \in SectionFields[s] :
              config[s][k] =
                  IF s \in DOMAIN file.data /\ k \in DOMAIN file.data[s]
                  THEN file.data[s][k] ELSE DefaultConfig[s][k]
        /\ \A k \in TopLevelSettings :
              config[k] =
                  IF k \in DOMAIN file.data
                  THEN file.data[k] ELSE DefaultConfig[k]

\* a file with a comment key and a rotation, a colour, a pin and a log level
\* was loaded: the settings given are the file's, the others default
C23_Witness ==
    /\ pc = "loaded"
    /\ Applies(file)
    /\ "display" \in DOMAIN file.data
    /\ "_comment" \in DOMAIN file.data["display"]
    /\ config.display.rotation = 270
    /\ config.display.brightness = 1
    /\ config.colors.on_color = << 0, 255, 255 >>
    /\ config.colors.status_okay = << 0, 255, 0 >>
    /\ config.buttons.button_a_pin = 10
    /\ config.buttons.button_b_pin = 6
    /\ config.log_level = "DEBUG"
    /\ config.enable_buttons = TRUE

-----------------------------------------------------------------------------
(* Properties of the encoder (SpecClock) *)

RECURSIVE MsbValue(_)
\* the unsigned number a list of bits spells, most significant bit first
MsbValue(bits) ==
    IF bits = << >> THEN 0
    ELSE 2 * MsbValue(SubSeq(bits, 1, Len(bits) - 1)) + bits[Len(bits)]

\* the fields lie in the ranges of the data model
InRange(t) ==
    /\ t.year   \in 0..(2^YearBits - 1)
    /\ t.month  \in 1..12
    /\ t.day    \in 1..31
    /\ t.hour   \in 0..23
    /\ t.minute \in 0..59
    /\ t.second \in 0..59

Encoded == pc \in {"update", "print", "sleep", "stopped"}

\* C1: for a captured timestamp whose fields are in range (year 0..2047,
\* month 1..12, day 1..31, hour 0..23, minute and second 0..59), each of the
\* six bit vectors update() produced, read most significant bit first as an
\* unsigned binary number, equals that field of the timestamp.
C1_DecodeEqualsField ==
    (Encoded /\ InRange(now)) =>
        \A f \in Fields : MsbValue(binary[f]) = now[f]

\* update() has run on 2026-11-06 23:45:30
C1_Witness ==
    /\ pc = "update"
    /\ last.op = "update"
    /\ now = Timestamp(2026, 11, 6, 23, 45, 30)
    /\ binary["hour"] = << 1, 0, 1, 1, 1 >>
    /\ binary["year"] = << 1, 1, 1, 1, 1, 1, 0, 1, 0, 1, 0 >>

\* C2: after any update() every bit of every vector is 0 or 1 and the
\* vector lengths are exactly year 11, month 4, day 5, hour 5, minute 6,
\* second 6, whatever the value encoded.
C2_FixedWidths ==
    Encoded =>
        \A f \in Fields :
            /\ Len(binary[f]) = FormatWidth(f)
            /\ \A i \in 1..Len(binary[f]) : binary[f][i] \in {0, 1}

\* C3: capturing a timestamp whose year exceeds 2047 fails with a
\* RangeError and produces no bit vectors for it.
C3_YearOverflowRaises ==
    (Encoded /\ now.year > 2^YearBits - 1) =>
        /\ last.raised = "RangeError"
        /\ "year" \notin DOMAIN binary

-----------------------------------------------------------------------------
(* Properties of the time rows (SpecLoop) *)

\* the bit of weight 2^k of v
BitOf(v, k) == (v \div (2^k)) % 2

\* the loop has written all six rows from the timestamp it captured in
\* this iteration (its draw() comes next)
Refreshed == pc = "draw"

\* C4: after one refresh of the time rows from a freshly captured
\* timestamp, for every field f (rows 0..5 in the order year, month, day,
\* hour, minute, second) and every bit position k below the field's width,
\* the cell at row(f), column 16 - k is the on colour if the bit of weight
\* 2^k of the field's value is 1 and the off colour otherwise.
C4_Placement ==
    Refreshed =>
        \A r \in 0..(Len(FieldNames) - 1) :
            \A k \in 0..(FormatWidth(FieldNames[r + 1]) - 1) :
                field[r][16 - k] =
                    IF BitOf(now[FieldNames[r + 1]], k) = 1
                    THEN config.on_color ELSE config.off_color

\* hour 23 = 10111: columns 16, 15, 14 and 12 of row 3 are on, column 13
\* is off
C4_Witness ==
    /\ pc = "draw"
    /\ now = Timestamp(2047, 12, 31, 23, 59, 59)
    /\ field[3][16] = config.on_color
    /\ field[3][12] = config.on_color
    /\ field[3][13] = config.off_color
    /\ config.off_color # config.on_color

AllZero == \A f \in Fields : \A i \in 1..Len(binary[f]) : binary[f][i] = 0

\* C9 as stated: after a time-row update in which all six bit vectors are
\* all-zero, every cell of rows 0..5, in all 17 columns, holds the
\* configured off colour.
C9_WholeRowsOff ==
    (Refreshed /\ AllZero) =>
        \A r \in 0..(Len(FieldNames) - 1) : \A x \in Cols :
            field[r][x] = config.off_color

\* C9 amended: after a time-row update in which all six bit vectors are
\* all-zero, the rightmost width(f) cells of each time row f (columns
\* 17 - width(f) .. 16) hold the configured off colour.
C9_WrittenCellsOff ==
    (Refreshed /\ AllZero) =>
        \A r \in 0..(Len(FieldNames) - 1) :
            \A x \in (Width - FormatWidth(FieldNames[r + 1]))..(Width - 1) :
                field[r][x] = config.off_color

\* an all-zero update under a configured off colour: the written cells
\* have it, the cells left of them are still black
C9_Witness ==
    /\ pc = "draw"
    /\ AllZero
    /\ config.off_color = << 0, 0, 8 >>
    /\ field[0][16] = << 0, 0, 8 >>
    /\ field[0][6] = << 0, 0, 8 >>
    /\ field[0][5] = BLACK

-----------------------------------------------------------------------------
(* Properties of the controller's methods (Spec) *)

IndicatorCells == { << status[n].x, status[n].y >> : n \in DOMAIN status }

\* C5: in every frame produced by draw(), the cell of each indicator (row
\* 6, columns 0, 1, 2 for okay, paused, mode) holds that indicator's
\* current colour.
C5_OverlaysWin ==
    hat.by = "draw" =>
        /\ \A n \in DOMAIN status :
              hat.shown[status[n].y][status[n].x] = status[n].color
        /\ HasButtons =>
              /\ hat.shown[6][0] = status["okay"].color
              /\ hat.shown[6][1] = status["paused"].color
              /\ hat.shown[6][2] = status["mode"].color

\* a draw() after the rows were written and okay was recoloured
C5_Witness ==
    /\ last.op = "draw"
    /\ hat.by = "draw"
    /\ HasButtons
    /\ status["okay"].color = << 255, 0, 0 >>
    /\ hat.shown[6][0] = << 255, 0, 0 >>
    /\ hat.shown[3][16] = config.on_color
    /\ hat.shown[6][3] = BLACK

\* C6: setStatus(name, color) with a registered name stores color for that
\* indicator, leaves the indicator's cell holding color, leaves every
\* other cell and every other indicator unchanged, and renders a frame.
C6_SetStatusKnown ==
    [][ \A s \in StatusArgs, c \in ColourArgs :
          (s \in DOMAIN status /\ last'.op = "setStatus"
                                /\ call_setStatusWith(s, c)) =>
              /\ DOMAIN status' = DOMAIN status
              /\ status'[s] = [status[s] EXCEPT !.color = c]
              /\ \A n \in DOMAIN status \ {s} : status'[n] = status[n]
              /\ field'[status[s].y][status[s].x] = c
              /\ \A y \in Rows, x \in Cols :
                    << x, y >> # << status[s].x, status[s].y >> =>
                        field'[y][x] = field[y][x]
              /\ last'.shows = 1
              /\ hat'.shown = field' ]_vars

\* setStatus("paused", red) on a grid whose rows were written
C6_Witness ==
    /\ last.op = "setStatus"
    /\ last.shows = 1
    /\ HasButtons
    /\ ~paused
    /\ status["paused"].color = << 255, 0, 0 >>
    /\ field[6][1] = << 255, 0, 0 >>
    /\ field[3][16] = config.on_color

\* C7: setStatus with a name that is not a registered indicator raises no
\* error and leaves the indicators (names, positions, colours) and every
\* grid cell unchanged.
C7_SetStatusUnknown ==
    [][ \A s \in StatusArgs, c \in ColourArgs :
          (s \notin DOMAIN status /\ last'.op = "setStatus"
                                   /\ call_setStatusWith(s, c)) =>
              /\ status' = status
              /\ field' = field
              /\ last'.raised = "none" ]_vars

\* an unregistered name was passed (no frame is rendered for it outside
\* BinClockLEDs.py) after the rows were written
C7_Witness ==
    /\ last.op = "setStatus"
    /\ last.shows = 0
    /\ field[3][16] = config.on_color

\* C8: draw() called twice in a row leaves the same grid and pushes the
\* same pixel values both times.
C8_DrawTwice ==
    [][ (last.op = "draw" /\ call_draw) =>
            /\ field' = field
            /\ hat'.pixels = hat.pixels
            /\ hat'.shown = hat.shown ]_vars

\* the second of two draw() calls, on a grid whose rows were written
C8_Witness ==
    /\ last.op = "draw"
    /\ last.again
    /\ field[3][16] = config.on_color

\* C10: after reset() every cell that is not an indicator's is black, each
\* indicator's cell holds the colour the indicator had before the reset,
\* the indicators are unchanged, and one frame has been rendered.
C10_Reset ==
    [][ call_reset =>
            /\ status' = status
            /\ \A y \in Rows, x \in Cols :
                  field'[y][x] =
                      IF << x, y >> \in IndicatorCells
                      THEN status[CHOOSE n \in DOMAIN status :
                                    status[n].x = x /\ status[n].y = y].color
                      ELSE BLACK
            /\ last'.shows = 1
            /\ hat'.shown = field'
            /\ hat'.by = "draw" ]_vars

\* reset() after the rows were written (hour 23 reversed in place) and
\* okay was recoloured
C10_Witness ==
    /\ last.op = "reset"
    /\ HasButtons
    /\ now.hour = 23
    /\ binary["hour"] = << 1, 1, 1, 0, 1 >>
    /\ status["okay"].color = << 255, 0, 0 >>
    /\ field[6][0] = << 255, 0, 0 >>
    /\ field[3][16] = BLACK

-----------------------------------------------------------------------------
(* Properties of the flags (Spec) *)

\* C11: the mode is binclock after construction, is always binclock or
\* scrollclock, and each toggleMode flips it: after n toggles it is binclock
\* exactly when n is even.
C11_ModeParity ==
    /\ mode \in {"binclock", "scrollclock"}
    /\ (mode = "binclock") <=> (mode_toggles % 2 = 0)

\* three toggles, the last two in a row: the mode is scrollclock
C11_Witness ==
    /\ mode_toggles = 3
    /\ last.op = "toggleMode"
    /\ last.again
    /\ mode = "scrollclock"

\* only the two toggles have been called since construction
OnlyToggles == calls = mode_toggles + pause_toggles

\* C12: from construction onward and after any number of toggles, the
\* colour of the mode indicator is determined by the mode: the colour it
\* has at construction (mode binclock) whenever the mode is binclock, and
\* one other colour whenever the mode is scrollclock.
C12_ModeColourByMode ==
    (HasButtons /\ OnlyToggles) =>
        /\ mode = "binclock" =>
              status["mode"].color = InitialStatus(variant, config)["mode"].color
        /\ mode = "scrollclock" =>
              /\ status["mode"].color = config.status_info
              /\ status["mode"].color # InitialStatus(variant, config)["mode"].color

\* C13: paused is false after construction and each togglePause negates
\* it: after n toggles it is true exactly when n is odd, so two toggles in
\* a row restore the value.
C13_PauseParity ==
    /\ paused \in BOOLEAN
    /\ paused <=> (pause_toggles % 2 = 1)

\* the second of two togglePause calls in a row, made while paused
C13_Witness ==
    /\ pause_toggles = 2
    /\ last.op = "togglePause"
    /\ last.again
    /\ ~paused

-----------------------------------------------------------------------------
(* Properties of the driving loops and the buttons (SpecLoop) *)

\* C14: every completed togglePause sets the paused indicator to the error
\* colour if the clock is now paused and to the okay colour if it is now
\* running, and renders one frame showing it; whenever no toggle is in
\* progress the paused indicator is the error colour exactly when paused.
C14_PausedIndicator ==
    HasButtons =>
        /\ (status["paused"].color = config.status_error) <=> paused
        /\ (status["paused"].color = config.status_okay) <=> ~paused
        /\ last.op = "togglePause" =>
              /\ last.shows = 1
              /\ hat.by = "draw"
              /\ hat.shown[status["paused"].y][status["paused"].x] =
                     status["paused"].color

\* button A pressed twice in a row while a text scrolls: the second press
\* comes while the clock is paused and shows the okay colour again
C14_Witness ==
    /\ last.op = "togglePause"
    /\ last.again
    /\ ~paused
    /\ pc = "scroll_check"
    /\ hat.by = "draw"
    /\ hat.shown[6][1] = config.status_okay

\* C15: while paused is true the driving loop captures no time and writes
\* no time row, wherever in the iteration the press of button A landed.
C15_FrozenWhilePaused ==
    [][ paused => ~(loop_update \/ loop_row) ]_vars

\* C16: once setExit has run the driving loop terminates, whatever paused
\* and mode are and whatever is pressed afterwards, provided the loop's
\* thread keeps being scheduled.
C16_ExitTerminates == exit ~> (pc = "ended")

\* the buttons loop has left by its break after button X was pressed while
\* the clock was paused in scrollclock mode
C16_Witness ==
    /\ variant = "buttons"
    /\ pc = "ended"
    /\ exit
    /\ paused
    /\ mode = "scrollclock"
    /\ last.op = "loop"

\* C17: when the loop has seen the exit flag and leaves, at least one
\* frame of the farewell text has been shown in between.
C17_FarewellShown == pc = "leave" => farewell_shown

-----------------------------------------------------------------------------
(* Properties of the change detection (Spec) *)

\* C18: after any sequence of reset, set_status, time capture and
\* update_binary_display calls, the grid of the improved controller equals
\* the grid the same calls leave when every row is rewritten on each
\* update.
C18_SameGridAsUnconditional ==
    variant = "improved" => field = shadow.field

-----------------------------------------------------------------------------
(* Properties of the grid and of the context manager (Spec) *)

\* an [r, g, b] of three integers in 0..255
IsColour(c) == DOMAIN c = 1..3 /\ \A i \in 1..3 : c[i] \in 0..255

\* C19: in every state after construction the grid has exactly 7 rows of
\* exactly 17 cells and every cell is a triple of integers in 0..255; no
\* operation changes the shape.
C19_GridShape ==
    /\ DOMAIN field = 0..6
    /\ \A y \in DOMAIN field :
          /\ DOMAIN field[y] = 0..16
          /\ \A x \in DOMAIN field[y] : IsColour(field[y][x])

\* the rows were written from the 12-bit vector of year 2048 (its top bit
\* lands in column 5) after an indicator was recoloured
C19_Witness ==
    /\ last.op = "update_rows"
    /\ now.year = 2048
    /\ Len(binary["year"]) = 12
    /\ field[0][5] = config.on_color
    /\ field[6][0] = << 255, 0, 0 >>

\* C20: once the context manager has been left the display is cleared and
\* the cleared frame shown: the last frame on the LEDs is blank.
C20_ExitBlank ==
    pc = "closed" =>
        /\ last.op = "cleanup"
        /\ hat.pixels = Blank
        /\ hat.shown = Blank

\* the context manager was left while the grid still held an indicator's
\* colour and a written row
C20_Witness ==
    /\ pc = "closed"
    /\ hat.by = "clear"
    /\ field[6][0] # BLACK
    /\ field[3][16] = config.on_color
    /\ hat.shown[6][0] = BLACK

-----------------------------------------------------------------------------
(* Properties of the frames, the positions and the flags *)

\* C24: on every path by which a driving loop ends (exit button, signal
\* handler, interrupt, exception), the display has been cleared and the
\* blank frame shown before the process ends, in all three variants.
C24_EndsBlank ==
    pc = "ended" =>
        /\ hat.pixels = Blank
        /\ hat.shown = Blank

\* rows 0..5 of the frame fr show t: bit k of each field at column 16 - k
ShowsTime(fr, t) ==
    \A r \in 0..(Len(FieldNames) - 1) :
        \A k \in 0..(FormatWidth(FieldNames[r + 1]) - 1) :
            fr[r][16 - k] =
                IF BitOf(t[FieldNames[r + 1]], k) = 1
                THEN config.on_color ELSE config.off_color

\* no time row of the frame fr has been written yet
RowsBlank(fr) == \A r \in 0..(Len(FieldNames) - 1) : fr[r] = Blank[r]

\* C25: every frame draw() pushes to the hardware, from the loop or from a
\* button callback that interleaves with the row-by-row update, shows rows
\* 0..5 that all encode one and the same captured timestamp (frames pushed
\* before any row was written aside).
C25_FrameOneTimestamp ==
    (hat.by = "draw" /\ ~RowsBlank(hat.shown)) =>
        \E t \in Times : ShowsTime(hat.shown, t)

\* C26: the indicator positions never change: after any sequence of
\* setStatus, toggle and reset operations the okay, paused and mode
\* indicators are at row 6, columns 0, 1 and 2, and the set of indicator
\* names is unchanged.
C26_IndicatorPositions ==
    /\ DOMAIN status = DOMAIN InitialStatus(variant, config)
    /\ \A n \in DOMAIN status : status[n].y = 6
    /\ HasButtons =>
          /\ DOMAIN status = {"okay", "paused", "mode"}
          /\ status["okay"].x = 0
          /\ status["paused"].x = 1
          /\ status["mode"].x = 2
    /\ ~HasButtons => status["heartbeat"].x = 0

\* a reset after okay was recoloured by setStatus and the mode toggled
C26_Witness ==
    /\ last.op = "reset"
    /\ mode_toggles = 1
    /\ status["okay"].color = << 255, 0, 0 >>
    /\ status["mode"].color = config.status_info
    /\ field[6][0] = << 255, 0, 0 >>

\* C27: a time-row update leaves unchanged every cell of row 6 and, in
\* rows 0..5, every cell in a column left of 17 - width(f) (columns 0..5
\* of the year row, 0..12 of month, 0..11 of day and hour, 0..10 of minute
\* and second).
C27_WritesOnlyFieldWidth ==
    [][ (last'.op = "update_rows" /\ call_update_rows) =>
            /\ field'[6] = field[6]
            /\ \A r \in 0..(Len(FieldNames) - 1) :
                  \A x \in 0..(Width - FormatWidth(FieldNames[r + 1]) - 1) :
                      field'[r][x] = field[r][x] ]_vars

\* the indicators other than n keep position and colour
OthersKept(n) == \A m \in DOMAIN status \ {n} : status'[m] = status[m]

\* rows 0..5 of the grid are kept
TimeRowsKept == \A r \in 0..(Len(FieldNames) - 1) : field'[r] = field[r]

\* C28: togglePause changes only paused and the paused indicator,
\* toggleMode only mode and the mode indicator, setExit only exit; the
\* other two flags, the other indicators' colours and rows 0..5 of the
\* grid are left unchanged.
C28_ButtonsOwnFlag ==
    [][ /\ (last'.op = "togglePause" /\ call_togglePause) =>
              /\ paused' # paused
              /\ mode' = mode /\ exit' = exit
              /\ OthersKept("paused") /\ TimeRowsKept
        /\ (last'.op = "toggleMode" /\ call_toggleMode) =>
              /\ mode' # mode
              /\ paused' = paused /\ exit' = exit
              /\ OthersKept("mode") /\ TimeRowsKept
        /\ (last'.op = "setExit" /\ call_setExit) =>
              /\ exit'
              /\ paused' = paused /\ mode' = mode
              /\ status' = status /\ field' = field ]_vars

\* button X pressed on a paused clock in scrollclock mode whose rows were
\* written
C28_Witness ==
    /\ last.op = "setExit"
    /\ exit
    /\ paused
    /\ mode = "scrollclock"
    /\ status["paused"].color = config.status_error
    /\ status["mode"].color = config.status_info
    /\ field[3][16] = config.on_color

\* C29: the exit flag is false after construction, only setExit sets it,
\* and once true it stays true in every later state.
C29_ExitMonotonic ==
    [][ /\ exit => exit'
        /\ (~exit /\ exit') => last'.op = "setExit"
        /\ last.op = "init" => ~exit ]_vars

\* button X, then button A, were pressed during an iteration and the loop
\* went on to its setStatus: exit still holds
C29_Witness ==
    /\ exit
    /\ paused
    /\ pc = "rows"
    /\ last.op = "setStatus"

\* C30: from the end of CurrentTime.update() until the next update(),
\* binary[f] is the MSB-first encoding of now's field f for every field,
\* also after the rows were drawn.
C30_VectorsKept ==
    \A f \in Fields : binary[f] = Encode(now)[f]

-----------------------------------------------------------------------------
(* Properties of repeated and skipped refreshes *)

\* C31: update_binary_display called twice in a row on the same
\* CurrentTime, with no update() in between, leaves the grid equal to the
\* grid after the first call.
C31_UpdateRowsIdempotent ==
    [][ (variant = "improved" /\ last.op = "update_rows"
                              /\ last'.op = "update_rows"
                              /\ call_update_rows) =>
            field' = field ]_vars

\* C32 as stated: while the mode stays scrollclock the driving loop
\* captures no new timestamp: the captured timestamp and the six bit
\* vectors are unchanged for as long as the mode remains scrollclock.
C32_ScrollKeepsTime ==
    [][ (mode = "scrollclock" /\ mode' = "scrollclock") =>
            (now' = now /\ binary' = binary) ]_vars

\* the statements of the scrolling pass
ScrollPcs == { "scroll_render", "scroll_check", "scroll_test", "scroll_show" }

\* C32 amended: an iteration that finds the mode scrollclock at its mode
\* test starts a scrolling pass instead of a capture, and every step of
\* the pass and of the sleep after it leaves the captured timestamp and
\* the six bit vectors unchanged.
C32_ScrollPassKeepsTime ==
    [][ /\ (pc = "check_mode" /\ mode = "scrollclock" /\ pc' # pc) =>
              (pc' \in ScrollPcs \cup {"ended"})
        /\ (pc \in ScrollPcs) =>
              /\ now' = now /\ binary' = binary
              /\ pc' \in ScrollPcs \cup {"sleep", "ended"}
        /\ (pc = "sleep") => (now' = now /\ binary' = binary) ]_vars

\* a frame of the scrolling text is on the LEDs, in an iteration that came
\* after a refresh of the rows
C32_Witness ==
    /\ pc \in ScrollPcs
    /\ mode = "scrollclock"
    /\ hat.by = "text"
    /\ last.shows = 1
    /\ offset_x >= 1
    /\ field[3][16] = config.on_color

\* C33: with buttons, the okay indicator holds the info colour from
\* construction until the first binary-clock refresh of the driving loop,
\* holds the okay colour in every frame drawn after that refresh, and no
\* later loop step, pause, mode change or exit changes it again.
C33_OkayIndicator ==
    [][ HasButtons =>
          /\ last.op = "init" => status["okay"].color = config.status_info
          /\ (status["okay"].color = config.status_info
                /\ status'["okay"].color # config.status_info) =>
                    (pc = "status" /\ pc' = "rows")
          /\ (pc = "status" /\ pc' = "rows") =>
                status'["okay"].color = config.status_okay
          /\ status["okay"].color = config.status_okay =>
                status'["okay"].color = config.status_okay
          /\ status'["okay"].color \in {config.status_info, config.status_okay}
          /\ hat'.by = "draw" => hat'.shown[6][0] = status'["okay"].color ]_vars

\* after a refresh the clock was paused, switched to scrollclock and asked
\* to exit: the frame the last callback drew shows okay in the okay colour
C33_Witness ==
    /\ HasButtons
    /\ status["okay"].color = config.status_okay
    /\ paused
    /\ mode = "scrollclock"
    /\ exit
    /\ hat.by = "draw"
    /\ hat.shown[6][0] = config.status_okay
    /\ field[3][16] = config.on_color

-----------------------------------------------------------------------------
(* Properties of save and of the sample file (SpecConfig) *)

\* C34: for every Config whose display values satisfy the DisplayConfig
\* constraints, Config.load of the file written by save returns a
\* configuration equal to the saved one in every field; and loading the
\* file written by create_sample_config (with its '_comment' keys in every
\* section) returns the all-defaults configuration.
C34_SaveLoadRoundTrip ==
    [][ /\ config_reload =>
              /\ config' = config
              /\ \A k \in DOMAIN DefaultConfig : config'[k] = config[k]
        /\ (last.op = "create_sample_config" /\ config_load) =>
              /\ "_comment" \in DOMAIN file.data["colors"]
              /\ config' = DefaultConfig ]_vars

\* a configuration with settings of every section changed came back from
\* the file save() wrote
C34_Witness ==
    /\ pc = "reloaded"
    /\ last.op = "reload"
    /\ file.parses
    /\ file.data["display"]["rotation"] = 0
    /\ config.display.rotation = 0
    /\ config.display.refresh_rate = 20
    /\ config.colors.off_color = << 0, 0, 8 >>
    /\ config.buttons.debounce_time = 5
    /\ config.enable_buttons = FALSE

=============================================================================
